---------------------------- MODULE Spec2Model ----------------------------
(***************************************************************************)
(* Classification resolution pipeline of the offline waste sorter          *)
(* (src/main.py): the response parser, the keyword classifier, the model   *)
(* gateway, the two orchestrator entry points and the session caches.      *)
(*                                                                         *)
(* Texts are TLA+ strings; a character is a string of length one.          *)
(* Confidences and JSON numbers are integers counting hundredths           *)
(* (0.95 is 95, 3 is 300), so that 0.8, 0.5, 1.5 ... are exact.            *)
(***************************************************************************)
EXTENDS Integers, Sequences, FiniteSets, TLC

VARIABLES text_cache, image_cache, last, first_call, ncalls,
          chat_history, enable_cache

vars == <<text_cache, image_cache, last, first_call, ncalls,
          chat_history, enable_cache>>

\* a message of st.session_state.chat_history: who wrote it and what it is
Message(role, text) == [role |-> role, text |-> text]

\* the chat of a new session (main, lines 1729-1734)
Greeting == << Message("assistant", "greeting") >>

(***************************************************************************)
(* Bounds of the model.                                                    *)
(***************************************************************************)
\* number of fragments a generated parser input is made of
MaxPieces == 4
\* number of vocabulary words a generated classifier input is made of
MaxWords == 2
\* number of classification requests in one session
MaxCalls == 2
\* the category identifiers looked up lie in -MaxCategoryId..MaxCategoryId
MaxCategoryId == 60
\* the seconds an answer of the backend takes, below the timeout
ReplyDelay == 1

(***************************************************************************)
(* Strings.                                                                *)
(***************************************************************************)
Ch(s, i) == SubSeq(s, i, i)

Min(a, b) == IF a < b THEN a ELSE b

\* str.find(c): index of the first occurrence of the character, 0 if none
\* (Python's -1)
Find(s, c) ==
    IF \E i \in 1..Len(s) : Ch(s, i) = c
    THEN CHOOSE i \in 1..Len(s) :
            /\ Ch(s, i) = c
            /\ \A j \in 1..(i - 1) : Ch(s, j) # c
    ELSE 0

\* `kw in s`: substring containment
Contains(s, kw) ==
    \E i \in 1..(Len(s) - Len(kw) + 1) : SubSeq(s, i, i + Len(kw) - 1) = kw

UpperChars == "ABCDEFGHIJKLMNOPQRSTUVWXYZ"
LowerChars == "abcdefghijklmnopqrstuvwxyz"

LowerChar(c) ==
    LET i == Find(UpperChars, c) IN IF i = 0 THEN c ELSE Ch(LowerChars, i)

\* a classifier that compares the text as it was typed
lowerAsTyped(s) == s
RECURSIVE lower(_)
\* str.lower() on the modelled (ASCII) alphabet, by halves
lower(s) ==
    IF Len(s) = 0 THEN ""
    ELSE IF Len(s) = 1 THEN LowerChar(s)
    ELSE lower(SubSeq(s, 1, Len(s) \div 2)) \o lower(SubSeq(s, Len(s) \div 2 + 1, Len(s)))

IsSpace(c) == c \in {" ", "\t", "\n", "\r"}

\* the first index from i on whose character is in (or, with inside FALSE,
\* not in) the set; Len(s) + 1 if there is none
FirstAt(s, i, set, inside) ==
    LET hit(j) == (Ch(s, j) \in set) = inside IN
    IF \E j \in i..Len(s) : hit(j)
    THEN CHOOSE j \in i..Len(s) : hit(j) /\ \A k \in i..(j - 1) : ~hit(k)
    ELSE Len(s) + 1

Spaces == {" ", "\t", "\n", "\r"}
Digits == {"0", "1", "2", "3", "4", "5", "6", "7", "8", "9"}

IsDigit(c) == c \in {"0", "1", "2", "3", "4", "5", "6", "7", "8", "9"}

DigitVal(c) == Find("123456789", c)

(***************************************************************************)
(* Python values that cross the pipeline: None, bool, number, str, dict    *)
(* and list, all of one record shape.  n holds a number in hundredths (or  *)
(* 1/0 for a bool), s a string, o the members of a dict in insertion order *)
(* (the elements of a list, with empty keys).                              *)
(***************************************************************************)
PyNone == [t |-> "None", n |-> 0, s |-> "", o |-> <<>>]
PyBool(b) == [t |-> "bool", n |-> IF b THEN 1 ELSE 0, s |-> "", o |-> <<>>]
PyNum(h) == [t |-> "num", n |-> h, s |-> "", o |-> <<>>]
PyStr(x) == [t |-> "str", n |-> 0, s |-> x, o |-> <<>>]
PyDict(m) == [t |-> "dict", n |-> 0, s |-> "", o |-> m]
PyList(m) == [t |-> "list", n |-> 0, s |-> "", o |-> m]

HasKey(d, k) == d.t = "dict" /\ \E i \in 1..Len(d.o) : d.o[i].k = k

\* dict.get(k, default)
DictGet(d, k, default) ==
    IF HasKey(d, k)
    THEN d.o[CHOOSE i \in 1..Len(d.o) : d.o[i].k = k].v
    ELSE default

\* d[k] = v on the member sequence: a repeated key keeps its place
DictSet(m, k, v) ==
    IF \E i \in 1..Len(m) : m[i].k = k
    THEN [i \in 1..Len(m) |-> IF m[i].k = k THEN [k |-> k, v |-> v] ELSE m[i]]
    ELSE Append(m, [k |-> k, v |-> v])

\* truth value of `if x:`
Truthy(x) ==
    CASE x.t = "None" -> FALSE
      [] x.t = "bool" -> x.n = 1
      [] x.t = "num" -> x.n # 0
      [] x.t = "str" -> x.s # ""
      [] OTHER -> Len(x.o) > 0


(***************************************************************************)
(* json.loads (src/main.py:409), the standard decoder in strict mode, on   *)
(* the characters the modelled replies are made of: objects, arrays,       *)
(* strings with the simple escapes, the literals and numbers of at most    *)
(* two fraction digits without exponent.  A decoder result is              *)
(* [ok, v, e]: whether it decoded, the value, the index after it.          *)
(***************************************************************************)
Fail == [ok |-> FALSE, v |-> PyNone, e |-> 0]
Ok(v, e) == [ok |-> TRUE, v |-> v, e |-> e]

\* the index after a run of whitespace (of digits) that starts at i
SkipWs(s, i) == FirstAt(s, i, Spaces, FALSE)

SkipDigits(s, i) == FirstAt(s, i, Digits, FALSE)

RECURSIVE DigitsVal(_)
\* value of a run of decimal digits
DigitsVal(d) ==
    IF d = "" THEN 0
    ELSE 10 * DigitsVal(SubSeq(d, 1, Len(d) - 1)) + DigitVal(Ch(d, Len(d)))

\* hundredths written by a fraction's digits (two digits of resolution)
FracVal(d) ==
    IF Len(d) = 0 THEN 0
    ELSE IF Len(d) = 1 THEN 10 * DigitVal(Ch(d, 1))
    ELSE 10 * DigitVal(Ch(d, 1)) + DigitVal(Ch(d, 2))

\* NUMBER_RE: -?(0|[1-9][0-9]*)(\.[0-9]+)? matched at i.  The integer part
\* runs over a..b-1, the fraction (if any) over b+1..c-1, c = b without one.
NumberValue(s, a, b, c, neg) ==
    LET mag == 100 * DigitsVal(SubSeq(s, a, b - 1)) + FracVal(SubSeq(s, b + 1, c - 1))
    IN  IF b = a THEN Fail
        ELSE Ok(PyNum(IF neg THEN 0 - mag ELSE mag), c)

FracEnd(s, b) ==
    IF b + 1 <= Len(s) /\ Ch(s, b) = "." /\ IsDigit(Ch(s, b + 1))
    THEN SkipDigits(s, b + 1)
    ELSE b

NumberFrac(s, a, b, neg) == NumberValue(s, a, b, FracEnd(s, b), neg)

IntEnd(s, a) ==
    IF a <= Len(s) /\ Ch(s, a) = "0" THEN a + 1 ELSE SkipDigits(s, a)

NumberInt(s, a, neg) == NumberFrac(s, a, IntEnd(s, a), neg)

json_number(s, i) ==
    IF i <= Len(s) /\ Ch(s, i) = "-"
    THEN NumberInt(s, i + 1, TRUE)
    ELSE NumberInt(s, i, FALSE)

RECURSIVE json_string(_, _, _)
\* py_scanstring from index i inside a string literal: a chunk of plain
\* characters up to the closing quote, an escape or a control character
json_string(s, i, acc) ==
    LET j == FirstAt(s, i, {"\"", "\\", "\n", "\t", "\r"}, TRUE)
        chunk == acc \o SubSeq(s, i, j - 1)
    IN  IF j > Len(s) THEN Fail
        ELSE IF Ch(s, j) = "\"" THEN Ok(PyStr(chunk), j + 1)
        ELSE IF Ch(s, j) = "\\" /\ j + 1 <= Len(s)
             THEN LET x == Ch(s, j + 1) IN
                  IF x \in {"\"", "\\", "/"} THEN json_string(s, j + 2, chunk \o x)
                  ELSE IF x = "n" THEN json_string(s, j + 2, chunk \o "\n")
                  ELSE IF x = "t" THEN json_string(s, j + 2, chunk \o "\t")
                  ELSE IF x = "r" THEN json_string(s, j + 2, chunk \o "\r")
                  ELSE Fail
        ELSE Fail

RECURSIVE json_value(_, _)
RECURSIVE json_members(_, _, _)
RECURSIVE json_elements(_, _, _)

\* JSONObject, one member: the quoted key, the colon, the value, and then
\* `}` to end the object or `,` to demand another member.  m holds the
\* members decoded so far.
MemberEnd(s, d, m) ==
    IF d > Len(s) THEN Fail
    ELSE IF Ch(s, d) = "}" THEN Ok(PyDict(m), d + 1)
    ELSE IF Ch(s, d) = "," THEN json_members(s, SkipWs(s, d + 1), m)
    ELSE Fail

MemberValue(s, key, val, m) ==
    IF ~val.ok THEN Fail
    ELSE MemberEnd(s, SkipWs(s, val.e), DictSet(m, key, val.v))

MemberColon(s, key, c, m) ==
    IF c > Len(s) \/ Ch(s, c) # ":" THEN Fail
    ELSE MemberValue(s, key, json_value(s, SkipWs(s, c + 1)), m)

MemberKey(s, key, m) ==
    IF ~key.ok THEN Fail
    ELSE MemberColon(s, key.v.s, SkipWs(s, key.e), m)

json_members(s, i, m) ==
    IF i > Len(s) \/ Ch(s, i) # "\"" THEN Fail
    ELSE MemberKey(s, json_string(s, i + 1, ""), m)

\* JSONArray, one element and then `]` or `,`
ElementEnd(s, d, m) ==
    IF d > Len(s) THEN Fail
    ELSE IF Ch(s, d) = "]" THEN Ok(PyList(m), d + 1)
    ELSE IF Ch(s, d) = "," THEN json_elements(s, SkipWs(s, d + 1), m)
    ELSE Fail

ElementValue(s, val, m) ==
    IF ~val.ok THEN Fail
    ELSE ElementEnd(s, SkipWs(s, val.e), Append(m, [k |-> "", v |-> val.v]))

json_elements(s, i, m) == ElementValue(s, json_value(s, i), m)

\* scan_once at index i
json_value(s, i) ==
    IF i > Len(s) THEN Fail
    ELSE LET c == Ch(s, i) IN
         IF c = "\"" THEN json_string(s, i + 1, "")
         ELSE IF c = "{"
              THEN LET j == SkipWs(s, i + 1) IN
                   IF j <= Len(s) /\ Ch(s, j) = "}" THEN Ok(PyDict(<<>>), j + 1)
                   ELSE json_members(s, j, <<>>)
         ELSE IF c = "["
              THEN LET j == SkipWs(s, i + 1) IN
                   IF j <= Len(s) /\ Ch(s, j) = "]" THEN Ok(PyList(<<>>), j + 1)
                   ELSE json_elements(s, j, <<>>)
         ELSE IF SubSeq(s, i, Min(Len(s), i + 3)) = "null" THEN Ok(PyNone, i + 4)
         ELSE IF SubSeq(s, i, Min(Len(s), i + 3)) = "true" THEN Ok(PyBool(TRUE), i + 4)
         ELSE IF SubSeq(s, i, Min(Len(s), i + 4)) = "false" THEN Ok(PyBool(FALSE), i + 5)
         ELSE json_number(s, i)

\* the end check of json.loads: nothing but whitespace after the value
WholeText(s, r) ==
    IF r.ok /\ SkipWs(s, r.e) = Len(s) + 1 THEN r ELSE Fail

\* json.loads(s): one value between optional whitespace, nothing after it;
\* ok = FALSE stands for JSONDecodeError
json_loads(s) == WholeText(s, json_value(s, SkipWs(s, 1)))

(***************************************************************************)
(* extract_json_from_text (src/main.py:390-412).                           *)
(***************************************************************************)
\* lines 408-411: the candidate's record if it decoded, else what the rest
\* of the scan gives
TryCandidate(r, rest) == IF r.ok THEN r.v ELSE rest

RECURSIVE ScanBracesOnce(_, _, _, _)
\* the scan with `return None` in the place of `continue`
ScanBracesOnce(text, start, i, depth) ==
    LET b == FirstAt(text, i, {"{", "}"}, TRUE) IN
    IF b > Len(text) THEN PyNone
    ELSE IF Ch(text, b) = "{" THEN ScanBracesOnce(text, start, b + 1, depth + 1)
    ELSE IF depth - 1 = 0
         THEN TryCandidate(json_loads(SubSeq(text, start, b)), PyNone)
    ELSE ScanBracesOnce(text, start, b + 1, depth - 1)

RECURSIVE ScanBraces(_, _, _, _)
\* the for loop of lines 401-411 from index i with the depth reached so
\* far; characters that are no brace leave the loop's state alone, so the
\* scan moves from brace to brace
ScanBraces(text, start, i, depth) ==
    LET b == FirstAt(text, i, {"{", "}"}, TRUE) IN
    IF b > Len(text) THEN PyNone
    ELSE IF Ch(text, b) = "{" THEN ScanBraces(text, start, b + 1, depth + 1)
    ELSE IF depth - 1 = 0
         THEN TryCandidate(json_loads(SubSeq(text, start, b)),
                           ScanBraces(text, start, b + 1, depth - 1))
    ELSE ScanBraces(text, start, b + 1, depth - 1)

extract_json_from_text(text) ==
    IF text = "" THEN PyNone
    ELSE LET start == Find(text, "{") IN
         IF start = 0 THEN PyNone
         ELSE ScanBraces(text, start, start, 0)


(***************************************************************************)
(* CategoryCatalog (src/main.py:38-99, 102-373).  CATEGORIES[c + 1] is the *)
(* entry of category c; icon, colour and disposal line are display data.   *)
(* A guidance text of DISPOSAL_INFO is a static table entry the pipeline   *)
(* only passes on: it is carried as one token naming its entry.            *)
(***************************************************************************)
CATEGORIES == <<
    [name |-> "Organic Waste"],
    [name |-> "Inorganic Waste"],
    [name |-> "Hazardous Waste"],
    [name |-> "Electronic Waste (E-Waste)"],
    [name |-> "Construction & Demolition Waste"],
    [name |-> "Industrial Waste"],
    [name |-> "Biomedical Waste"],
    [name |-> "Radioactive Waste"],
    [name |-> "Special - Textiles/Paper/Agricultural"],
    [name |-> "Other/Unknown"] >>

CategoryIds == 0..(Len(CATEGORIES) - 1)

\* the reserved "Other/Unknown" category
UNKNOWN == 9

DISPOSAL_INFO(c, field) == field \o "#" \o Ch("0123456789", c + 1)

\* a lookup that falls back to the nearest entry of the catalogue
ResolveCategoryNearest(category_id) ==
    IF category_id < 0 THEN 0
    ELSE IF category_id > 9 THEN 9
    ELSE category_id

\* CATEGORIES.get(category_id, CATEGORIES[9]) and the same for DISPOSAL_INFO
ResolveCategory(category_id) ==
    IF category_id \in CategoryIds THEN category_id ELSE UNKNOWN

OneText(x) == PyList(<<[k |-> "", v |-> PyStr(x)]>>)

get_category_details(category_id) ==
    LET c == ResolveCategory(category_id) IN
    PyDict(<<
        [k |-> "category_id", v |-> PyNum(100 * category_id)],
        [k |-> "category_name", v |-> PyStr(CATEGORIES[c + 1].name)],
        [k |-> "description", v |-> PyStr(DISPOSAL_INFO(c, "description"))],
        [k |-> "reason", v |-> PyStr(DISPOSAL_INFO(c, "reason"))],
        [k |-> "disposal_steps", v |-> OneText(DISPOSAL_INFO(c, "steps"))],
        [k |-> "environmental_impact",
         v |-> PyStr(DISPOSAL_INFO(c, "environmental_impact"))],
        [k |-> "common_mistakes", v |-> OneText(DISPOSAL_INFO(c, "mistakes"))],
        [k |-> "additional_tips", v |-> OneText(DISPOSAL_INFO(c, "tips"))],
        [k |-> "local_disposal_options", v |-> PyStr(DISPOSAL_INFO(c, "options"))],
        [k |-> "preparation_requirements", v |-> PyStr(DISPOSAL_INFO(c, "prep"))],
        [k |-> "safety_precautions", v |-> PyStr(DISPOSAL_INFO(c, "safety"))],
        [k |-> "confidence", v |-> PyNum(100)] >>)

(***************************************************************************)
(* A classification result: the 5-tuple (category id, label, description,  *)
(* confidence, details) the two entry points and the keyword classifier    *)
(* return.                                                                 *)
(***************************************************************************)
Classification(id, name, description, confidence, details) ==
    [category_id |-> id, category_name |-> name, description |-> description,
     confidence |-> confidence, details |-> details]

(***************************************************************************)
(* heuristic_classify (src/main.py:596-659).  category_keywords[c + 1] is  *)
(* the keyword list of category c, in the order of the table; a keyword is *)
(* <<keyword, confidence>>.                                                *)
(***************************************************************************)
category_keywords == <<
    << \* 0
       <<"food scrap", 95>>, <<"fruit peel", 95>>, <<"vegetable", 90>>,
       <<"leftover", 85>>, <<"coffee ground", 90>>, <<"tea bag", 90>>,
       <<"yard waste", 85>>, <<"grass clipping", 90>>, <<"leaf", 85>>,
       <<"wood chip", 80>>, <<"sawdust", 80>>, <<"manure", 95>> >>,
    << \* 1
       <<"plastic bottle", 95>>, <<"plastic bag", 90>>, <<"glass jar", 95>>,
       <<"metal can", 95>>, <<"aluminum foil", 90>>, <<"styrofoam", 85>>,
       <<"ceramic", 80>>, <<"rubber", 85>>, <<"pvc", 90>> >>,
    << \* 2
       <<"battery", 95>>, <<"paint", 95>>, <<"pesticide", 95>>,
       <<"cleaning chemical", 90>>, <<"motor oil", 95>>, <<"fluorescent bulb", 90>>,
       <<"asbestos", 99>>, <<"bleach", 90>>, <<"ammonia", 90>> >>,
    << \* 3
       <<"phone", 95>>, <<"computer", 95>>, <<"tv", 95>>,
       <<"printer", 90>>, <<"monitor", 95>>, <<"cable", 85>>,
       <<"charger", 90>>, <<"keyboard", 85>>, <<"mouse", 85>> >>,
    << \* 4
       <<"concrete", 95>>, <<"brick", 95>>, <<"drywall", 90>>,
       <<"tile", 90>>, <<"asphalt", 90>>, <<"lumber", 85>>,
       <<"insulation", 85>>, <<"roofing", 85>> >>,
    << \* 5
       <<"slag", 95>>, <<"industrial waste", 90>>, <<"chemical waste", 95>>,
       <<"manufacturing byproduct", 90>>, <<"factory waste", 85>> >>,
    << \* 6
       <<"syringe", 99>>, <<"needle", 99>>, <<"bandage", 95>>,
       <<"gauze", 95>>, <<"blood product", 99>>, <<"glove", 85>>,
       <<"mask", 80>>, <<"vial", 90>>, <<"iv bag", 95>> >>,
    << \* 7
       <<"radioactive", 99>>, <<"uranium", 99>>, <<"plutonium", 99>>,
       <<"radiation source", 99>>, <<"nuclear waste", 99>> >>,
    << \* 8
       <<"textile", 90>>, <<"clothing", 90>>, <<"paper", 85>>,
       <<"cardboard", 85>>, <<"agricultural film", 90>>, <<"pesticide container", 95>> >> >>

\* a scan that starts from the first category instead of the reserved one
InitialBestFirst == [category |-> 0, confidence |-> 0]
\* best_category, best_confidence before the scan
InitialBest == [category |-> 9, confidence |-> 0]

RECURSIVE ScanKeywordsLast(_, _, _, _)
\* the inner loop with `>=` in the place of `>`: a tie goes to the later keyword
ScanKeywordsLast(text_lower, category_id, i, best) ==
    LET keywords == category_keywords[category_id + 1] IN
    IF i > Len(keywords) THEN best
    ELSE IF keywords[i][2] >= best.confidence /\ Contains(text_lower, keywords[i][1])
         THEN ScanKeywordsLast(text_lower, category_id, i + 1,
                               [category |-> category_id, confidence |-> keywords[i][2]])
         ELSE ScanKeywordsLast(text_lower, category_id, i + 1, best)

RECURSIVE ScanKeywords(_, _, _, _)
\* the inner loop of lines 652-656 over the keywords of one category
ScanKeywords(text_lower, category_id, i, best) ==
    LET keywords == category_keywords[category_id + 1] IN
    IF i > Len(keywords) THEN best
    ELSE IF keywords[i][2] > best.confidence /\ Contains(text_lower, keywords[i][1])
         THEN ScanKeywords(text_lower, category_id, i + 1,
                           [category |-> category_id, confidence |-> keywords[i][2]])
         ELSE ScanKeywords(text_lower, category_id, i + 1, best)

RECURSIVE BestMatch(_, _, _)
\* the outer loop of line 651 over the categories of the table
BestMatch(text_lower, category_id, best) ==
    IF category_id + 1 > Len(category_keywords) THEN best
    ELSE LET scanned == ScanKeywords(text_lower, category_id, 1, best) IN
         \* the comparison only fixes the evaluation order: one category is
         \* scanned to the end before the next one is entered
         IF scanned = best
         THEN BestMatch(text_lower, category_id + 1, best)
         ELSE BestMatch(text_lower, category_id + 1, scanned)

\* the return of line 659
heuristic_result(best) ==
    Classification(best.category,
                   PyStr(CATEGORIES[best.category + 1].name),
                   PyStr(DISPOSAL_INFO(best.category, "description")),
                   best.confidence,
                   get_category_details(best.category))

heuristic_classify(text) == heuristic_result(BestMatch(lower(text), 0, InitialBest))


(***************************************************************************)
(* The built-in coercions int(x) and float(x) of lines 823/826 and         *)
(* 859/862.  A result is [ok, v, exc]; exc names the exception raised.     *)
(* String arguments are decimal numerals (no exponent, no "nan"/"inf").    *)
(***************************************************************************)
Raised(exc) == [ok |-> FALSE, v |-> 0, exc |-> exc]
Value(v) == [ok |-> TRUE, v |-> v, exc |-> ""]

LStrip(s) == SubSeq(s, SkipWs(s, 1), Len(s))

RStrip(s) ==
    IF \E i \in 1..Len(s) : ~IsSpace(Ch(s, i))
    THEN SubSeq(s, 1, CHOOSE i \in 1..Len(s) :
                          /\ ~IsSpace(Ch(s, i))
                          /\ \A j \in (i + 1)..Len(s) : IsSpace(Ch(s, j)))
    ELSE ""

\* str.strip()
Strip(s) == RStrip(LStrip(s))

\* str.split('\n')[0]
FirstLine(s) ==
    LET i == Find(s, "\n") IN IF i = 0 THEN s ELSE SubSeq(s, 1, i - 1)

Trunc(h) == IF h >= 0 THEN h \div 100 ELSE 0 - ((0 - h) \div 100)

\* the numeral of a stripped string argument, [ok, h] with h in hundredths:
\* an optional sign, digits over a..b-1 and, for float, a fraction over
\* b+1..c-1 (c = b without one); at least one digit, nothing after
NumeralValue(x, a, b, c, neg) ==
    LET digits == (b - a) + (IF c > b THEN c - (b + 1) ELSE 0)
        mag == 100 * DigitsVal(SubSeq(x, a, b - 1)) + FracVal(SubSeq(x, b + 1, c - 1))
    IN  IF digits > 0 /\ c = Len(x) + 1
        THEN [ok |-> TRUE, h |-> IF neg THEN 0 - mag ELSE mag]
        ELSE [ok |-> FALSE, h |-> 0]

NumeralFrac(x, a, b, neg, fraction) ==
    IF fraction /\ b <= Len(x) /\ Ch(x, b) = "."
    THEN NumeralValue(x, a, b, SkipDigits(x, b + 1), neg)
    ELSE NumeralValue(x, a, b, b, neg)

NumeralInt(x, a, neg, fraction) == NumeralFrac(x, a, SkipDigits(x, a), neg, fraction)

NumeralSigned(x, fraction) ==
    IF x # "" /\ Ch(x, 1) \in {"-", "+"}
    THEN NumeralInt(x, 2, Ch(x, 1) = "-", fraction)
    ELSE NumeralInt(x, 1, FALSE, fraction)

Numeral(str, fraction) == NumeralSigned(Strip(str), fraction)

IntOf(r) == IF r.ok THEN Value(r.h \div 100) ELSE Raised("ValueError")

py_int(x) ==
    CASE x.t = "num" -> Value(Trunc(x.n))
      [] x.t = "bool" -> Value(x.n)
      [] x.t = "str" -> IntOf(Numeral(x.s, FALSE))
      [] OTHER -> Raised("TypeError")

FloatOf(r) == IF r.ok THEN Value(r.h) ELSE Raised("ValueError")

py_float(x) ==
    CASE x.t = "num" -> Value(x.n)
      [] x.t = "bool" -> Value(100 * x.n)
      [] x.t = "str" -> FloatOf(Numeral(x.s, TRUE))
      [] OTHER -> Raised("TypeError")

(***************************************************************************)
(* ModelGateway: query_ollama (src/main.py:511-591).  What the backend     *)
(* does is the environment's choice env = [http, cli]:                     *)
(*   http.kind  "no_requests"  the requests import failed (line 22)        *)
(*              "exception"    requests.post or response.json() raised     *)
(*              "timeout"      requests.post ran into its timeout          *)
(*              "status"       a reply with http.status, body in http.body *)
(*   cli.kind   "exception"    tempfile or subprocess.run raised (missing  *)
(*                             binary, timeout)                            *)
(*              "exit"         the process ended with cli.code, its        *)
(*                             standard output in cli.stdout               *)
(***************************************************************************)
OLLAMA_OK == 200

DEFAULT_TEXT_MODEL == "llama3:latest"
DEFAULT_IMAGE_MODEL == "llava:latest"

Response(text) == PyDict(<<[k |-> "response", v |-> PyStr(text)]>>)

\* a body of the HTTP answer that response.json() cannot decode (line 543)
Undecodable == [t |-> "undecodable", n |-> 0, s |-> "", o |-> <<>>]

\* an HTTP path that gives no reply whatever the backend answers
http_pathNoReply(env) == [returned |-> FALSE, ret |-> PyNone]

\* lines 523-550: the reply the HTTP path returns, if it returns
http_path(env) ==
    IF /\ env.http.kind = "status"
       /\ env.http.status = OLLAMA_OK
       /\ env.http.body # Undecodable
    THEN [returned |-> TRUE, ret |-> env.http.body]
    ELSE [returned |-> FALSE, ret |-> PyNone]

\* lines 553-591: CLI fallback
cli_path(env) ==
    IF env.cli.kind = "exit" /\ env.cli.code = 0
    THEN Response(env.cli.stdout)
    ELSE PyNone

query_ollama(model, prompt, has_image, env) ==
    LET h == http_path(env)
        base == [model |-> model, prompt |-> prompt, has_image |-> has_image,
                 http_attempts |-> IF env.http.kind = "no_requests" THEN 0 ELSE 1]
    IN  IF h.returned
        THEN [ret |-> h.ret, cli_attempts |-> 0, via |-> "http"] @@ base
        ELSE LET r == cli_path(env) IN
             [ret |-> r, cli_attempts |-> 1,
              via |-> IF r = PyNone THEN "none" ELSE "cli"] @@ base

\* the prompt templates of lines 703-779: the fixed template around the
\* caption or the description
build_image_prompt(caption) == [template |-> "image caption", subject |-> caption]
build_text_prompt(text) == [template |-> "description", subject |-> text]
caption_prompt == [template |-> "caption request", subject |-> ""]


(***************************************************************************)
(* Image bytes.  An upload is [readable, mode, w, h, px]: whether PIL can  *)
(* decode it, its colour mode, its size and its picture content.           *)
(* preprocess_image (src/main.py:664-685) answers [raised, bytes].         *)
(***************************************************************************)
MAX_SIZE == 1024
JPEG_QUALITY == 85
CAPTION_OCR_CHARS == 100

Max(a, b) == IF a > b THEN a ELSE b

\* the sizes (longest edge, edge) of the modelled uploads for which the
\* double product edge * (1024 / longest) falls just below the exact integer
FloatShort == {<<1122, 1122>>, <<1122, 561>>}

\* int(edge * ratio) with ratio = max_size / longest, line 675-676
ScaleEdge(edge, longest) ==
    (edge * MAX_SIZE) \div longest - (IF <<longest, edge>> \in FloatShort THEN 1 ELSE 0)

Jpeg(w, h, px) ==
    [readable |-> TRUE, mode |-> "RGB", w |-> w, h |-> h, px |-> px,
     format |-> "JPEG", quality |-> JPEG_QUALITY]

preprocess_image(image_bytes) ==
    IF ~image_bytes.readable
    THEN \* Image.open raises, line 683-685 hands the input back
         [raised |-> FALSE, bytes |-> image_bytes]
    ELSE LET longest == Max(image_bytes.w, image_bytes.h)
             big == longest > MAX_SIZE
             w2 == IF big THEN ScaleEdge(image_bytes.w, longest) ELSE image_bytes.w
             h2 == IF big THEN ScaleEdge(image_bytes.h, longest) ELSE image_bytes.h
         IN  IF w2 < 1 \/ h2 < 1
             THEN \* Image.resize refuses an empty size; same handler
                  [raised |-> FALSE, bytes |-> image_bytes]
             ELSE [raised |-> FALSE, bytes |-> Jpeg(w2, h2, image_bytes.px)]

\* str.split() followed by " ".join(): runs of whitespace become one space
RECURSIVE JoinWords(_, _)
JoinWords(s, acc) ==
    LET a == SkipWs(s, 1)
        e == FirstAt(s, a, Spaces, TRUE)
        word == SubSeq(s, a, e - 1)
    IN  IF a > Len(s) THEN acc
        ELSE JoinWords(SubSeq(s, e, Len(s)),
                       IF acc = "" THEN word ELSE acc \o " " \o word)

\* extract_text_from_image (src/main.py:687-698); ocr = [available, kind, text]
\* is what pytesseract does: not installed, raises, or reads text
extract_text_from_image(image_bytes, ocr) ==
    IF ~ocr.available THEN ""
    ELSE IF ~image_bytes.readable \/ ocr.kind = "exception" THEN ""
    ELSE JoinWords(ocr.text, "")

(***************************************************************************)
(* ResultCache: st.session_state.text_cache / image_cache, a dict from     *)
(* fingerprint to classification.                                          *)
(***************************************************************************)
\* hashlib.md5(...).hexdigest() (lines 416, 843): the digest is taken to be
\* collision-free on the modelled inputs and is carried as the tagged content
get_content_hash(content) == <<"md5", content>>

EmptyCache == [x \in {} |-> 0]

CacheHitNever(cache, key) == FALSE
\* `key in cache`, lines 796 and 847
CacheHit(cache, key) == key \in DOMAIN cache

CacheDropStore(cache, key, value) == cache
\* cache[key] = value, lines 830 and 866
CacheStore(cache, key, value) ==
    [x \in (DOMAIN cache) \cup {key} |-> IF x = key THEN value ELSE cache[x]]


(***************************************************************************)
(* ClassificationOrchestrator: classify_text (src/main.py:838-872) and     *)
(* classify_image (784-836).  Each answers a record: outcome "return" with *)
(* the classification in ret, or "raise" with the exception in exc; the    *)
(* cache as the call leaves it; and what the call did (path taken, the     *)
(* gateway queries in order, parser and keyword-classifier calls).         *)
(***************************************************************************)
NoResult == Classification(0 - 1, PyNone, PyNone, 0, PyNone)

ReplyUsableAlways(result) == TRUE
\* `result and "response" in result`, lines 808, 819 and 855
ReplyUsable(result) == Truthy(result) /\ HasKey(result, "response")

\* the tuple of lines 858-864 (822-828), [ok, v, exc], from the record and
\* the two coerced fields; int(...) is evaluated before float(...)
classification_tuple(parsed, id, confidence) ==
    IF ~id.ok THEN [ok |-> FALSE, v |-> NoResult, exc |-> id.exc]
    ELSE IF ~confidence.ok
         THEN [ok |-> FALSE, v |-> NoResult, exc |-> confidence.exc]
    ELSE [ok |-> TRUE, exc |-> "",
          v |-> Classification(
                    id.v,
                    DictGet(parsed, "category_name",
                            PyStr(CATEGORIES[UNKNOWN + 1].name)),
                    DictGet(parsed, "description", PyStr("")),
                    confidence.v,
                    parsed)]

build_classification(parsed) ==
    classification_tuple(parsed,
                         py_int(DictGet(parsed, "category_id", PyNum(100 * UNKNOWN))),
                         py_float(DictGet(parsed, "confidence", PyNum(50))))

Step(outcome, exc, ret, path, parser_calls, heuristic_calls) ==
    [outcome |-> outcome, exc |-> exc, ret |-> ret, path |-> path,
     parser_calls |-> parser_calls, heuristic_calls |-> heuristic_calls]

\* lines 870-872 (834-836): the heuristic fallback
fallback(subject, parser_calls) ==
    Step("return", "", heuristic_classify(subject), "heuristic", parser_calls, 1)

\* lines 858-868: the classification built from the record is returned, or
\* the exception of a coercion leaves the function
resolve_tuple(c) ==
    IF c.ok THEN Step("return", "", c.v, "model", 1, 0)
    ELSE Step("raise", c.exc, NoResult, "raise", 1, 0)

\* line 857: `if parsed:`
resolve_parsed(parsed, subject) ==
    IF Truthy(parsed) THEN resolve_tuple(build_classification(parsed))
    ELSE fallback(subject, 1)

\* line 856: extract_json_from_text(result["response"])
resolve_response(response, subject) ==
    IF Truthy(response) /\ response.t # "str"
    THEN \* text.find on a value that is no string
         Step("raise", "AttributeError", NoResult, "raise", 1, 0)
    ELSE resolve_parsed(IF Truthy(response)
                        THEN extract_json_from_text(response.s)
                        ELSE PyNone,
                        subject)

\* lines 855-872 (819-836): from the gateway's answer to the returned
\* classification; path "model" is the branch that stores into the cache
resolve_reply(result, subject) ==
    IF ~ReplyUsable(result) THEN fallback(subject, 0)
    ELSE IF result.t # "dict" THEN Step("raise", "TypeError", NoResult, "raise", 0, 0)
    ELSE IF ~HasKey(result, "response")
         THEN Step("raise", "KeyError", NoResult, "raise", 0, 0)
    ELSE resolve_response(DictGet(result, "response", PyNone), subject)

\* a call that stores whatever it returns
finishStoreAlways(r, cache, key, queries) ==
    r @@ [cache |-> IF r.outcome = "return" THEN CacheStore(cache, key, r.ret) ELSE cache,
          queries |-> queries, key |-> key]

\* lines 865-868 (829-832): the store of the model branch, and what the call
\* leaves behind
finish(r, cache, key, queries) ==
    r @@ [cache |-> IF r.path = "model" THEN CacheStore(cache, key, r.ret) ELSE cache,
          queries |-> queries, key |-> key]

\* lines 851-872: the cache miss
text_miss(text, text_hash, cache, result) ==
    finish(resolve_reply(result.ret, text), cache, text_hash, <<result>>)

classify_text(text, model, cache, env) ==
    LET text_hash == get_content_hash(text) IN
    IF CacheHit(cache, text_hash)
    THEN Step("return", "", cache[text_hash], "cache", 0, 0)
           @@ [cache |-> cache, queries |-> <<>>, key |-> text_hash]
    ELSE text_miss(text, text_hash, cache,
                   query_ollama(model, build_text_prompt(text), FALSE, env))

\* a fallback that takes the OCR text whole
caption_ofWholeText(caption_result, ocr_text) ==
    IF ReplyUsable(caption_result)
    THEN [ok |-> TRUE, exc |-> "",
          v |-> FirstLine(Strip(DictGet(caption_result, "response", PyStr("")).s))]
    ELSE [ok |-> TRUE, exc |-> "", v |-> IF ocr_text # "" THEN ocr_text ELSE "an object"]

\* lines 808-811: the caption [ok, v, exc]
caption_of(caption_result, ocr_text) ==
    IF ReplyUsable(caption_result)
    THEN LET response == DictGet(caption_result, "response", PyNone) IN
         IF response.t # "str" THEN [ok |-> FALSE, v |-> "", exc |-> "AttributeError"]
         ELSE [ok |-> TRUE, v |-> FirstLine(Strip(response.s)), exc |-> ""]
    ELSE [ok |-> TRUE, exc |-> "",
          v |-> IF ocr_text # ""
                THEN SubSeq(ocr_text, 1, Min(CAPTION_OCR_CHARS, Len(ocr_text)))
                ELSE "an object"]

\* lines 815-836: the classification of the caption
image_classify(seen, ocr_text, caption_result, caption, classify_result) ==
    finish(resolve_reply(classify_result.ret, caption),
           seen.cache, seen.key, <<caption_result, classify_result>>)
      @@ [ocr_text |-> ocr_text, caption |-> caption, processed |-> seen.processed]

\* lines 808-817: the caption and the classification query built from it
image_caption(seen, text_model, env2, ocr_text, caption_result, caption) ==
    IF ~caption.ok
    THEN Step("raise", caption.exc, NoResult, "raise", 0, 0)
           @@ [queries |-> <<caption_result>>, ocr_text |-> ocr_text,
               caption |-> ""] @@ seen
    ELSE image_classify(seen, ocr_text, caption_result, caption.v,
                        query_ollama(text_model, build_image_prompt(caption.v),
                                     FALSE, env2))

\* lines 800-811: the cache miss
image_miss(seen, text_model, env2, ocr_text, caption_result) ==
    image_caption(seen, text_model, env2, ocr_text, caption_result,
                  caption_of(caption_result.ret, ocr_text))

classify_image(image_bytes, image_model, text_model, cache, ocr, env1, env2) ==
    LET pre == preprocess_image(image_bytes)
        processed_img == pre.bytes
        img_hash == get_content_hash(processed_img)
        seen == [cache |-> cache, key |-> img_hash, processed |-> processed_img]
    IN
    IF pre.raised
    THEN Step("raise", "InputFailure", NoResult, "raise", 0, 0)
           @@ [queries |-> <<>>, ocr_text |-> "", caption |-> ""] @@ seen
    ELSE IF CacheHit(cache, img_hash)
    THEN Step("return", "", cache[img_hash], "cache", 0, 0)
           @@ [queries |-> <<>>, ocr_text |-> "", caption |-> ""] @@ seen
    ELSE image_miss(seen, text_model, env2,
                    extract_text_from_image(processed_img, ocr),
                    query_ollama(image_model, caption_prompt, TRUE, env1))


(***************************************************************************)
(* The inputs of a session: the texts and uploads the user submits and     *)
(* what the backend and the OCR engine do at each call.                    *)
(***************************************************************************)
Texts == {"plastic bottle", "an old zzz"}

\* response texts of the model over HTTP
ReplyTexts ==
    { "",
      "I cannot classify this item.",
      "{\"category_id\": 3",
      "{}",
      "Sure! {\"category_id\": 3, \"confidence\": 0.8}",
      "{\"category_id\": 42, \"confidence\": 1.5}",
      "{\"confidence\": 0.9}",
      "{\"description\": \"a thing\"}",
      "{\"category_id\": \"abc\", \"confidence\": 0.9}",
      "{\"category_id\": 1, \"confidence\": null}" }

\* standard output of `ollama run`
CliTexts == { "no json here", "{\"category_id\": 2, \"category_name\": \"Hazardous Waste\"}" }

Http(kind, status, body) == [kind |-> kind, status |-> status, body |-> body]
Cli(kind, code, stdout) == [kind |-> kind, code |-> code, stdout |-> stdout]

HttpFailures == { Http("no_requests", 0, PyNone), Http("status", 500, PyNone) }

HttpReplies(texts) ==
    { Http("status", OLLAMA_OK, Response(t)) : t \in texts }
        \cup { Http("status", OLLAMA_OK,
                    PyDict(<<[k |-> "error", v |-> PyStr("model not found")]>>)) }

CliFailures == { Cli("exception", 0, ""), Cli("exit", 1, "") }

CliReplies(texts) == { Cli("exit", 0, t) : t \in texts }

\* the ways one query_ollama call can go; the CLI is not consulted after a
\* reply of the HTTP path
Envs(http_failures, cli_outcomes, http_texts) ==
    { [http |-> h, cli |-> c] : h \in http_failures, c \in cli_outcomes }
      \cup { [http |-> h, cli |-> Cli("exit", 1, "")] : h \in HttpReplies(http_texts) }

TextEnvs == Envs(HttpFailures, CliFailures \cup CliReplies(CliTexts), ReplyTexts)

Upload(readable, mode, w, h, px, format) ==
    [readable |-> readable, mode |-> mode, w |-> w, h |-> h, px |-> px,
     format |-> format, quality |-> 0]

NoImage == Upload(FALSE, "", 0, 0, "", "")

Images ==
    { Upload(FALSE, "", 0, 0, "not an image", ""),
      Upload(TRUE, "RGBA", 4000, 3000, "bottle", "PNG") }

OcrEnvs ==
    { [available |-> FALSE, kind |-> "text", text |-> ""],
      [available |-> TRUE, kind |-> "text", text |-> " PVC  pipe\n2m "],
      \* 104 characters once joined; "battery" lies beyond the 100th
      [available |-> TRUE, kind |-> "text",
       text |-> "polyethylene-terephthalate-container-0123456789\n"
                  \o "recycling-code-01-keep-away-from-heat-0123456789  battery"] }

\* the caption request: no backend at all, a reply without response text,
\* or a caption from the CLI
CaptionEnvs ==
    { [http |-> Http("exception", 0, PyNone), cli |-> Cli("exception", 0, "")],
      [http |-> Http("status", OLLAMA_OK,
                     PyDict(<<[k |-> "error", v |-> PyStr("model not found")]>>)),
       cli |-> Cli("exit", 1, "")],
      [http |-> Http("no_requests", 0, PyNone),
       cli |-> Cli("exit", 0, " A metal can\nIt is red.")] }

\* the classification request of the image path
ImageEnvs ==
    Envs({Http("status", 500, PyNone)}, {Cli("exit", 1, "")},
         { "{\"category_id\": 1, \"confidence\": 0.9}",
           "{\"category_id\": 12, \"confidence\": 2}",
           "{\"category_id\": null}" })

(***************************************************************************)
(* The session.  text_cache and image_cache are the two caches of          *)
(* st.session_state; last records the request handled last, with the       *)
(* caches as it found them; first_call remembers, for each text, how the   *)
(* first completed classify_text of it went; ncalls counts the requests.   *)
(***************************************************************************)
NoCall == [known |-> FALSE, ret |-> NoResult, path |-> ""]

Record(op, text, image, r, prior, ocr_text, caption, processed) ==
    [op |-> op, text |-> text, image |-> image,
     outcome |-> r.outcome, exc |-> r.exc, ret |-> r.ret, path |-> r.path,
     queries |-> r.queries, parser_calls |-> r.parser_calls,
     heuristic_calls |-> r.heuristic_calls, key |-> r.key,
     pre_text_cache |-> text_cache, pre_image_cache |-> image_cache,
     prior |-> prior, ocr_text |-> ocr_text, caption |-> caption,
     processed |-> processed]

Init ==
    /\ text_cache = EmptyCache
    /\ image_cache = EmptyCache
    /\ first_call = [t \in {} |-> NoCall]
    /\ ncalls = 0
    /\ chat_history = Greeting
    /\ enable_cache = TRUE
    /\ last = [op |-> "none"]

\* the text form of main(), lines 1933-1938: one classify_text request
ClassifyText ==
    /\ ncalls < MaxCalls
    /\ \E text \in Texts, env \in TextEnvs :
          \E r \in {classify_text(text, DEFAULT_TEXT_MODEL, text_cache, env)} :
              LET prior == IF text \in DOMAIN first_call THEN first_call[text] ELSE NoCall
              IN  /\ text_cache' = r.cache
                  /\ last' = Record("classify_text", text, NoImage, r, prior,
                                    "", "", NoImage)
                  /\ first_call' =
                        IF r.outcome = "return" /\ text \notin DOMAIN first_call
                        THEN [t \in (DOMAIN first_call) \cup {text} |->
                                 IF t = text
                                 THEN [known |-> TRUE, ret |-> r.ret, path |-> r.path]
                                 ELSE first_call[t]]
                        ELSE first_call
    /\ ncalls' = ncalls + 1
    /\ UNCHANGED <<image_cache, chat_history, enable_cache>>

\* the image form of main(), lines 1996-2000: one classify_image request
ClassifyImage ==
    /\ ncalls < MaxCalls
    /\ \E image \in Images, ocr \in OcrEnvs, env1 \in CaptionEnvs, env2 \in ImageEnvs :
          \E r \in {classify_image(image, DEFAULT_IMAGE_MODEL, DEFAULT_TEXT_MODEL,
                                   image_cache, ocr, env1, env2)} :
              /\ image_cache' = r.cache
              /\ last' = Record("classify_image", "", image, r, NoCall,
                                r.ocr_text, r.caption, r.processed)
    /\ ncalls' = ncalls + 1
    /\ UNCHANGED <<text_cache, first_call, chat_history, enable_cache>>

Next == ClassifyText \/ ClassifyImage

Spec == Init /\ [][Next]_vars


(***************************************************************************)
(* The response parser on its own: extract_json_from_text applied to one   *)
(* reply text.  The texts are the two replies of the parser's documented   *)
(* examples and every concatenation of at most MaxPieces fragments.        *)
(***************************************************************************)
Fragments == << "{", "}", "{}", "\"a\": ", "1", "\"}{\"", " x" >>

RECURSIVE Concat(_)
Concat(pieces) ==
    IF Len(pieces) = 0 THEN ""
    ELSE Fragments[Head(pieces)] \o Concat(Tail(pieces))

ParserExamples ==
    { "Sure! {\"category_id\": 3, \"confidence\": 0.8}",
      "{\"a\": {\"b\": 1}} trailing",
      "no json here" }

ParserTexts ==
    ParserExamples \cup
        UNION { { Concat(pieces) : pieces \in [1..n -> 1..Len(Fragments)] } :
                n \in 0..MaxPieces }

InitParser ==
    /\ text_cache = EmptyCache
    /\ image_cache = EmptyCache
    /\ first_call = [t \in {} |-> NoCall]
    /\ ncalls = 0
    /\ chat_history = Greeting
    /\ enable_cache = TRUE
    /\ \E text \in ParserTexts : last = [op |-> "reply", text |-> text, ret |-> PyNone]

\* one call extract_json_from_text(text) on the reply text
ExtractJson ==
    /\ last.op = "reply"
    /\ last' = [op |-> "extract_json_from_text", text |-> last.text,
                ret |-> extract_json_from_text(last.text)]
    /\ UNCHANGED <<text_cache, image_cache, first_call, ncalls, chat_history, enable_cache>>

NextParser == ExtractJson

SpecParser == InitParser /\ [][NextParser]_vars

(***************************************************************************)
(* The keyword classifier on its own: heuristic_classify applied to one    *)
(* description.  The descriptions are the documented examples and every    *)
(* phrase of at most MaxWords vocabulary words.                            *)
(***************************************************************************)
Vocabulary ==
    << "plastic", "bottle", "Used", "Syringe", "pesticide", "container",
       "TV", "leaf", "zzz", "old" >>

RECURSIVE Phrase(_)
Phrase(words) ==
    IF Len(words) = 0 THEN ""
    ELSE IF Len(words) = 1 THEN Vocabulary[Head(words)]
    ELSE Vocabulary[Head(words)] \o " " \o Phrase(Tail(words))

HeuristicExamples ==
    { "zzz-nonexistent-item-qqq",
      "used syringe",
      "USED SYRINGE",
      "banana peel and coffee grounds",
      "Banana Peel AND Coffee Grounds",
      "plastic bottle" }

HeuristicTexts ==
    HeuristicExamples \cup
        UNION { { Phrase(words) : words \in [1..n -> 1..Len(Vocabulary)] } :
                n \in 0..MaxWords }

InitHeur ==
    /\ text_cache = EmptyCache
    /\ image_cache = EmptyCache
    /\ first_call = [t \in {} |-> NoCall]
    /\ ncalls = 0
    /\ chat_history = Greeting
    /\ enable_cache = TRUE
    /\ \E text \in HeuristicTexts :
          last = [op |-> "description", text |-> text, ret |-> NoResult]

\* one call heuristic_classify(text)
HeuristicClassify ==
    /\ last.op = "description"
    /\ last' = [op |-> "heuristic_classify", text |-> last.text,
                ret |-> heuristic_classify(last.text)]
    /\ UNCHANGED <<text_cache, image_cache, first_call, ncalls, chat_history, enable_cache>>

NextHeur == HeuristicClassify

SpecHeur == InitHeur /\ [][NextHeur]_vars


(***************************************************************************)
(* Properties of classify_text and classify_image, stated on the record of *)
(* the request handled last (specification Spec).                          *)
(***************************************************************************)
TextCall == last.op = "classify_text"
ImageCall == last.op = "classify_image"

\* the request found its fingerprint in the cache
TextHit == TextCall /\ last.key \in DOMAIN last.pre_text_cache
ImageHit == ImageCall /\ last.key \in DOMAIN last.pre_image_cache

\* the classification query of the last text request went out and neither
\* the HTTP path nor the subprocess path gave a reply
BothPathsFailed ==
    /\ TextCall
    /\ Len(last.queries) = 1
    /\ last.queries[1].via = "none"

\* the record the parser returns for the reply of the last text request
\* (PyNone when there was no reply text or no record)
ParsedReply ==
    IF TextCall /\ Len(last.queries) = 1 /\ last.queries[1].ret.t = "dict"
    THEN LET response == DictGet(last.queries[1].ret, "response", PyNone) IN
         IF response.t = "str" /\ response.s # ""
         THEN extract_json_from_text(response.s)
         ELSE PyNone
    ELSE PyNone

\* C1: for every text, cache state and model reply, the category id that
\* classify_text returns is an integer in 0..9.
C1_CategoryIdInRange ==
    (TextCall /\ last.outcome = "return") => last.ret.category_id \in 0..9

\* C2: once a first classify_text(t) has completed, by model success or by
\* heuristic fallback, a second classify_text(t) returns the identical
\* result and takes it from the cache.
C2_IdempotentAnyFirstOutcome ==
    (TextCall /\ last.prior.known) =>
        /\ last.outcome = "return"
        /\ last.ret = last.prior.ret
        /\ last.path = "cache"

\* C2 (amended): once a first classify_text(t) has returned a result built
\* from the model's reply, every later classify_text(t) returns the identical
\* result, takes it from the cache and asks the backend nothing.
C2_IdempotentAfterModelSuccess ==
    (TextCall /\ last.prior.known /\ last.prior.path = "model") =>
        /\ last.outcome = "return"
        /\ last.ret = last.prior.ret
        /\ last.path = "cache"
        /\ last.queries = <<>>

C2_Witness ==
    /\ TextCall
    /\ last.prior.known
    /\ last.prior.path = "model"
    /\ last.path = "cache"
    /\ last.ret = last.prior.ret

\* C3: classify_text never raises to its caller: with no reply, a timeout,
\* a reply without a JSON block or a reply whose JSON block has malformed or
\* wrongly typed fields, the call ends by returning a classification.
C3_NeverRaises ==
    TextCall =>
        /\ last.outcome = "return"
        /\ last.ret # NoResult

\* C4: on a cache miss with both gateway paths failing, classify_text(t)
\* returns exactly heuristic_classify(t); for "plastic bottle" that is
\* category id 1 with confidence 0.95.
C4_FallbackIsHeuristic ==
    (BothPathsFailed /\ ~TextHit) =>
        /\ last.outcome = "return"
        /\ last.ret = heuristic_classify(last.text)
        /\ last.text = "plastic bottle" =>
              /\ last.ret.category_id = 1
              /\ last.ret.confidence = 95

C4_Witness ==
    /\ BothPathsFailed
    /\ ~TextHit
    /\ last.text = "plastic bottle"
    /\ last.path = "heuristic"
    /\ last.ret.category_id = 1
    /\ last.ret.confidence = 95

\* C5: whenever the parser returns a record for the model reply, the result
\* is built from that record, a missing category_id becoming 9 and a missing
\* confidence 0.5 (also for a record with no fields at all), and it is stored
\* in the text cache under the text's fingerprint.
C5_DefaultsFromRecord ==
    (TextCall /\ ~TextHit /\ ParsedReply # PyNone) =>
        /\ last.outcome = "return"
        /\ last.ret.details = ParsedReply
        /\ ~HasKey(ParsedReply, "category_id") => last.ret.category_id = UNKNOWN
        /\ ~HasKey(ParsedReply, "confidence") => last.ret.confidence = 50
        /\ last.key \in DOMAIN text_cache
        /\ text_cache[last.key] = last.ret

\* C6: a cache hit is terminal: classify_text (classify_image) returns the
\* stored result without any gateway, parser or heuristic call and leaves
\* the cache as it was.
C6_CacheHitTerminal ==
    /\ TextCall => last.key = get_content_hash(last.text)
    /\ TextHit =>
          /\ last.outcome = "return"
          /\ last.ret = last.pre_text_cache[last.key]
          /\ last.queries = <<>>
          /\ last.parser_calls = 0
          /\ last.heuristic_calls = 0
          /\ text_cache = last.pre_text_cache
    /\ ImageCall => last.key = get_content_hash(last.processed)
    /\ ImageHit =>
          /\ last.outcome = "return"
          /\ last.ret = last.pre_image_cache[last.key]
          /\ last.queries = <<>>
          /\ last.parser_calls = 0
          /\ last.heuristic_calls = 0
          /\ image_cache = last.pre_image_cache

C6_Witness ==
    /\ TextHit
    /\ last.path = "cache"
    /\ last.ret = last.pre_text_cache[last.key]
    /\ last.queries = <<>>

\* C7: classify_image on unreadable or corrupt image bytes hands the failure
\* to its caller as an error and returns no classification.
C7_UnreadableImageRaises ==
    (ImageCall /\ ~last.image.readable) => last.outcome = "raise"

\* C8: every result classify_image returns, from the model or from the
\* heuristic fallback, is in the image cache under the fingerprint of the
\* normalized image when the call returns.
C8_EveryResultStored ==
    (ImageCall /\ last.outcome = "return") =>
        /\ last.key \in DOMAIN image_cache
        /\ image_cache[last.key] = last.ret

\* C8 (amended): a result classify_image builds from the model's reply is in
\* the image cache under the fingerprint of the normalized image when the
\* call returns, and a request whose fingerprint is cached is a cache hit; a
\* result of the heuristic fallback is returned without being stored.
C8_ModelResultStored ==
    /\ (ImageCall /\ last.path = "model") =>
          /\ last.outcome = "return"
          /\ last.key = get_content_hash(preprocess_image(last.image).bytes)
          /\ last.key \in DOMAIN image_cache
          /\ image_cache[last.key] = last.ret
    /\ (ImageCall /\ last.path = "heuristic") =>
          image_cache = last.pre_image_cache
    /\ ImageHit => last.path = "cache"

C8_Witness ==
    /\ ImageCall
    /\ last.path = "model"
    /\ last.key \notin DOMAIN last.pre_image_cache
    /\ image_cache[last.key] = last.ret


(***************************************************************************)
(* Properties of extract_json_from_text (specification SpecParser).        *)
(* The candidates of a text are told by counting braces, not by scanning:  *)
(* a closer is a '}' at which the text from the first '{' on holds as many *)
(* '}' as '{'.                                                             *)
(***************************************************************************)
ParserCall == last.op = "extract_json_from_text"

FirstBrace(text) == Find(text, "{")

BraceCount(text, from, to, c) ==
    Cardinality({ k \in from..to : Ch(text, k) = c })

Closers(text) ==
    { j \in (IF FirstBrace(text) = 0 THEN {} ELSE FirstBrace(text)..Len(text)) :
        /\ Ch(text, j) = "}"
        /\ BraceCount(text, FirstBrace(text), j, "{")
             = BraceCount(text, FirstBrace(text), j, "}") }

Least(S) == CHOOSE j \in S : \A k \in S : j <= k

\* the decoding of the candidate that ends at closer j
Candidate(text, j) == json_loads(SubSeq(text, FirstBrace(text), j))

ParsingClosers(text) == { j \in Closers(text) : Candidate(text, j).ok }

HeuristicCall == last.op = "heuristic_classify"

\* some keyword of the table is a substring of the lowercased text
KeywordInLower(text_lower) ==
    \E c \in 1..Len(category_keywords) :
        \E i \in 1..Len(category_keywords[c]) :
            Contains(text_lower, category_keywords[c][i][1])

KeywordIn(text) == KeywordInLower(lower(text))

\* C10: heuristic_classify answers every text, and answers category id 9
\* with confidence 0.0 when the lowercased text contains none of the table's
\* keywords ("zzz-nonexistent-item-qqq" is such a text).
C10_UnmatchedIsUnknown ==
    HeuristicCall =>
        /\ last.ret.category_id \in CategoryIds
        /\ ~KeywordIn(last.text) =>
              /\ last.ret.category_id = 9
              /\ last.ret.confidence = 0
        /\ last.text = "zzz-nonexistent-item-qqq" =>
              /\ last.ret.category_id = 9
              /\ last.ret.confidence = 0

C10_Witness ==
    /\ HeuristicCall
    /\ last.text = "zzz-nonexistent-item-qqq"
    /\ ~KeywordIn(last.text)
    /\ last.ret.category_id = 9
    /\ last.ret.confidence = 0


\* C11: heuristic_classify gives category id 6 with confidence 0.99 for
\* "used syringe" and category id 0 with confidence at least 0.9 for "banana
\* peel and coffee grounds", in whatever letter case the text is written; the
\* result of any text is the result of its lowercased form.
C11_ReferenceInputs ==
    HeuristicCall =>
        /\ last.text \in {"used syringe", "Used Syringe", "USED SYRINGE"} =>
              /\ last.ret.category_id = 6
              /\ last.ret.confidence = 99
        /\ last.text \in {"banana peel and coffee grounds",
                          "Banana Peel AND Coffee Grounds"} =>
              /\ last.ret.category_id = 0
              /\ last.ret.confidence >= 90
        /\ last.ret = heuristic_classify(lower(last.text))

C11_Witness ==
    /\ HeuristicCall
    /\ last.text = "USED SYRINGE"
    /\ last.ret.category_id = 6
    /\ last.ret.confidence = 99

\* the entries <<category, position>> of the keyword table, and their order
KeywordEntries ==
    UNION { { <<c, i>> : i \in 1..Len(category_keywords[c + 1]) } : c \in 0..8 }

EntryKeyword(e) == category_keywords[e[1] + 1][e[2]][1]

EntryConfidence(e) == category_keywords[e[1] + 1][e[2]][2]

TableOrder(e, f) == e[1] < f[1] \/ (e[1] = f[1] /\ e[2] < f[2])

MatchingIn(text_lower) ==
    { e \in KeywordEntries : Contains(text_lower, EntryKeyword(e)) }

MatchingEntries(text) == MatchingIn(lower(text))

\* e is of the highest confidence in `matching`, and the first such entry
FirstHighest(e, matching) ==
    \A f \in matching :
        /\ EntryConfidence(f) <= EntryConfidence(e)
        /\ EntryConfidence(f) = EntryConfidence(e) => f = e \/ TableOrder(e, f)

\* the result is that of the first highest entry, if any entry matches
ReturnsFirstHighest(matching, ret) ==
    matching # {} =>
        \E e \in matching :
            /\ FirstHighest(e, matching)
            /\ ret.category_id = e[1]
            /\ ret.confidence = EntryConfidence(e)

\* C19: when at least one keyword occurs in the text, heuristic_classify
\* returns the category and the confidence of the matching keyword of highest
\* confidence, and among matching keywords of that same confidence the one
\* that comes first in table order (category 0 to 8, then position in the
\* category's list).
C19_HighestFirstInTable ==
    HeuristicCall => ReturnsFirstHighest(MatchingEntries(last.text), last.ret)

\* "pesticide" (category 2) and "pesticide container" (category 8) both carry
\* 0.95 and both occur: category 2 comes first in the table
C19_Witness ==
    /\ HeuristicCall
    /\ last.text = "pesticide container"
    /\ \E e, f \in MatchingEntries(last.text) :
          e[1] # f[1] /\ EntryConfidence(e) = EntryConfidence(f)
    /\ last.ret.category_id = 2
    /\ last.ret.confidence = 95

(***************************************************************************)
(* Further properties of extract_json_from_text (specification SpecParser). *)
(***************************************************************************)
\* the shortest balanced span from the first '{' exists and does not parse
FirstSpanFails(text) ==
    /\ Closers(text) # {}
    /\ ~Candidate(text, Least(Closers(text))).ok

C16_WitnessOtherStart ==
    /\ ParserCall
    /\ last.text = "{ x}{}"
    /\ last.ret = PyNone

(***************************************************************************)
(* Further properties of classify_text and classify_image (specification   *)
(* Spec).                                                                  *)
(***************************************************************************)
\* C14: the confidence of every result that classify_text and classify_image
\* return lies in [0.0, 1.0], whatever number the model's reply carries.
C14_ConfidenceInUnitInterval ==
    ((TextCall \/ ImageCall) /\ last.outcome = "return") =>
        /\ last.ret.confidence >= 0
        /\ last.ret.confidence <= 100

\* the parsed record of the last text request carries the field, and the
\* coercion of its value fails
Uncoercible(field) ==
    /\ ParsedReply.t = "dict"
    /\ HasKey(ParsedReply, field)
    /\ IF field = "confidence"
       THEN ~py_float(DictGet(ParsedReply, field, PyNone)).ok
       ELSE ~py_int(DictGet(ParsedReply, field, PyNone)).ok

\* C17: when the record of the reply carries a confidence (or a category_id)
\* that cannot be coerced to a number, classify_text does not raise: it
\* returns a classification with the default in the field's place (0.5 for
\* the confidence, 9 for the category id).
C17_SilentDefault ==
    /\ (TextCall /\ ~TextHit /\ Uncoercible("confidence")) =>
          /\ last.outcome = "return"
          /\ last.ret.confidence = 50
    /\ (TextCall /\ ~TextHit /\ Uncoercible("category_id")) =>
          /\ last.outcome = "return"
          /\ last.ret.category_id = UNKNOWN

\* C18: a result of classify_text's heuristic fallback is never cached: the
\* text cache is after the call what it was before it, and the only change a
\* call ever makes to the text cache is the store, under the text's
\* fingerprint, of the classification built from the parsed record of the
\* model's reply.
C18_FallbackNeverCached ==
    /\ (TextCall /\ last.path = "heuristic") => text_cache = last.pre_text_cache
    /\ (TextCall /\ text_cache # last.pre_text_cache) =>
          /\ last.path = "model"
          /\ ParsedReply.t = "dict"
          /\ last.ret = build_classification(ParsedReply).v
          /\ text_cache = CacheStore(last.pre_text_cache, last.key, last.ret)
    /\ ImageCall => text_cache = last.pre_text_cache

\* a cache miss that ended in the heuristic fallback, after a reply came back
\* and no usable record was in it
C18_Witness ==
    /\ TextCall
    /\ ~TextHit
    /\ last.path = "heuristic"
    /\ last.heuristic_calls = 1
    /\ Len(last.queries) = 1
    /\ last.queries[1].via # "none"
    /\ last.key \notin DOMAIN text_cache
    /\ text_cache = last.pre_text_cache

(***************************************************************************)
(* preprocess_image on its own (specification SpecImage): one readable or  *)
(* unreadable upload, one call.                                            *)
(***************************************************************************)
\* edge lengths around max_size, and the extremes
ImageEdges == {1, 2, 561, 768, 1024, 1025, 1122, 3000, 4000}

ImageModes == {"RGB", "RGBA"}

ImageUploads ==
    { Upload(TRUE, mode, w, h, "bottle", "PNG") :
          mode \in ImageModes, w \in ImageEdges, h \in ImageEdges }
        \cup { Upload(FALSE, "", 0, 0, "not an image", "") }

InitImage ==
    /\ text_cache = EmptyCache
    /\ image_cache = EmptyCache
    /\ first_call = [t \in {} |-> NoCall]
    /\ ncalls = 0
    /\ chat_history = Greeting
    /\ enable_cache = TRUE
    /\ \E image \in ImageUploads :
          last = [op |-> "upload", image |-> image, ret |-> NoImage]

\* one call preprocess_image(image_bytes)
PreprocessImage ==
    /\ last.op = "upload"
    /\ \E r \in {preprocess_image(last.image)} :
          last' = [op |-> IF r.raised THEN "raise" ELSE "preprocess_image",
                   image |-> last.image, ret |-> r.bytes]
    /\ UNCHANGED <<text_cache, image_cache, first_call, ncalls, chat_history, enable_cache>>

NextImage == PreprocessImage

SpecImage == InitImage /\ [][NextImage]_vars

PreprocessCall == last.op = "preprocess_image"

LongestEdge(image) == Max(image.w, image.h)

\* the edge is within one pixel of edge * max_size / longest
WithinOnePixel(scaled, edge, longest) ==
    /\ (scaled - 1) * longest <= edge * MAX_SIZE
    /\ edge * MAX_SIZE <= (scaled + 1) * longest

\* C15: for every readable image whose longest edge exceeds 1024, extreme
\* aspect ratios such as 4000x1 included, preprocess_image returns an image
\* whose longest edge is at most 1024 and whose edges are within one pixel of
\* the exact proportional size; an image whose longest edge is at most 1024
\* keeps its dimensions.
C15_LongestEdgeBounded ==
    (PreprocessCall /\ last.image.readable) =>
        IF LongestEdge(last.image) > MAX_SIZE
        THEN /\ LongestEdge(last.ret) <= MAX_SIZE
             /\ WithinOnePixel(last.ret.w, last.image.w, LongestEdge(last.image))
             /\ WithinOnePixel(last.ret.h, last.image.h, LongestEdge(last.image))
        ELSE /\ last.ret.w = last.image.w
             /\ last.ret.h = last.image.h

(***************************************************************************)
(* query_ollama step by step (specification SpecGateway): one call, with   *)
(* the temporary files of the CLI fallback.  The record `last` holds the   *)
(* call: pc (the statement reached), files (the temporary files that exist *)
(* on disk), tmp_path and img_path (whether the variable has been          *)
(* assigned), events (the attempts made, in order), pending (what the      *)
(* try block decided before its finally clause runs).  The environment's   *)
(* cli record says in fail_at which statement of the CLI block raises, and *)
(* in remove whether os.remove succeeds.                                   *)
(***************************************************************************)
GatewayExceptions ==
    { "ConnectionError", "Timeout", "JSONDecodeError", "OSError",
      "UnicodeEncodeError", "FileNotFoundError", "TimeoutExpired" }

\* the default of the timeout parameter, in seconds; the same value is
\* handed to requests.post (line 539) and to subprocess.run (line 571)
TIMEOUT == 15

\* the seconds the call waits for the HTTP answer: the whole timeout when
\* the request times out, ReplyDelay for an answer, none when the connection
\* is refused
http_wait(env) ==
    CASE env.http.kind = "timeout" -> TIMEOUT
      [] env.http.kind = "status" -> ReplyDelay
      [] OTHER -> 0

\* the seconds the call waits for the subprocess
cli_wait(env) ==
    CASE env.cli.fail_at = "timeout" -> TIMEOUT
      [] env.cli.fail_at = "none" -> ReplyDelay
      [] OTHER -> 0

\* a handler for operating-system errors only
CaughtOSErrorOnly(exc) == exc \in {"OSError", "FileNotFoundError"}

\* `except Exception` of lines 549 and 580
Caught(exc) == exc \in GatewayExceptions

\* what the statements of the try blocks raise when they fail
http_exception(env) ==
    IF env.http.kind = "exception" THEN "ConnectionError"
    ELSE IF env.http.kind = "timeout" THEN "Timeout"
    ELSE IF /\ env.http.kind = "status"
            /\ env.http.status = OLLAMA_OK
            /\ env.http.body = Undecodable
         THEN "JSONDecodeError"
    ELSE ""

cli_exception(fail_at) ==
    CASE fail_at = "write_prompt" -> "UnicodeEncodeError"
      [] fail_at = "spawn" -> "FileNotFoundError"
      [] fail_at = "timeout" -> "TimeoutExpired"
      [] OTHER -> "OSError"

NoPending == [kind |-> "none", ret |-> PyNone, exc |-> ""]

\* an exception inside the try block of line 555: handled at line 580, or
\* on its way to the caller once the finally clause has run
cli_raise(c, exc) ==
    [c EXCEPT !.pc = "finally",
              !.pending = IF Caught(exc) THEN NoPending
                          ELSE [kind |-> "raise", ret |-> PyNone, exc |-> exc]]

\* the statement `step` of the CLI block: it raises, or the call goes on as c
cli_step(step, c) ==
    IF last.env.cli.fail_at = step THEN cli_raise(last, cli_exception(step)) ELSE c

\* lines 523-550
HttpPath ==
    /\ last.op = "query_ollama"
    /\ last.pc = "http"
    /\ last' =
         IF last.env.http.kind = "no_requests"
         THEN [last EXCEPT !.pc = "create_prompt"]
         ELSE IF http_path(last.env).returned
         THEN [last EXCEPT !.pc = "done", !.events = Append(@, "http"),
                           !.waited = @ + http_wait(last.env),
                           !.outcome = "return", !.ret = http_path(last.env).ret]
         ELSE IF http_exception(last.env) # "" /\ ~Caught(http_exception(last.env))
         THEN [last EXCEPT !.pc = "done", !.events = Append(@, "http"),
                           !.waited = @ + http_wait(last.env),
                           !.outcome = "raise", !.exc = http_exception(last.env)]
         ELSE [last EXCEPT !.pc = "create_prompt", !.events = Append(@, "http"),
                           !.waited = @ + http_wait(last.env)]
    /\ UNCHANGED <<text_cache, image_cache, first_call, ncalls, chat_history, enable_cache>>

\* line 557: the prompt file is created
CreatePromptFile ==
    /\ last.op = "query_ollama"
    /\ last.pc = "create_prompt"
    /\ last' = cli_step("create_prompt",
                        [last EXCEPT !.files = @ \cup {"prompt"},
                                     !.pc = IF last.has_image THEN "create_image"
                                            ELSE "write_prompt"])
    /\ UNCHANGED <<text_cache, image_cache, first_call, ncalls, chat_history, enable_cache>>

\* line 559: the image file is created
CreateImageFile ==
    /\ last.op = "query_ollama"
    /\ last.pc = "create_image"
    /\ last' = cli_step("create_image",
                        [last EXCEPT !.files = @ \cup {"image"}, !.pc = "write_image"])
    /\ UNCHANGED <<text_cache, image_cache, first_call, ncalls, chat_history, enable_cache>>

\* lines 560-561: the image is written, then img_path is assigned
WriteImage ==
    /\ last.op = "query_ollama"
    /\ last.pc = "write_image"
    /\ last' = cli_step("write_image",
                        [last EXCEPT !.img_path = TRUE, !.pc = "write_ref"])
    /\ UNCHANGED <<text_cache, image_cache, first_call, ncalls, chat_history, enable_cache>>

\* line 562: the reference to the image is written to the prompt file
WriteReference ==
    /\ last.op = "query_ollama"
    /\ last.pc = "write_ref"
    /\ last' = cli_step("write_ref", [last EXCEPT !.pc = "write_prompt"])
    /\ UNCHANGED <<text_cache, image_cache, first_call, ncalls, chat_history, enable_cache>>

\* lines 563-564: the prompt is written, then tmp_path is assigned
WritePrompt ==
    /\ last.op = "query_ollama"
    /\ last.pc = "write_prompt"
    /\ last' = cli_step("write_prompt",
                        [last EXCEPT !.tmp_path = TRUE, !.pc = "run"])
    /\ UNCHANGED <<text_cache, image_cache, first_call, ncalls, chat_history, enable_cache>>

\* lines 566-579: the prompt file is read back and `ollama run` is started
RunSubprocess ==
    /\ last.op = "query_ollama"
    /\ last.pc = "run"
    /\ last' =
         IF last.env.cli.fail_at = "read_prompt"
         THEN cli_raise(last, cli_exception("read_prompt"))
         ELSE IF last.env.cli.fail_at \in {"spawn", "timeout"}
         THEN cli_raise([last EXCEPT !.events = Append(@, "cli"),
                                     !.waited = @ + cli_wait(last.env)],
                        cli_exception(last.env.cli.fail_at))
         ELSE [last EXCEPT
                 !.events = Append(@, "cli"),
                 !.waited = @ + cli_wait(last.env),
                 !.pc = "finally",
                 !.pending = IF cli_path(last.env) # PyNone
                             THEN [kind |-> "return", ret |-> cli_path(last.env),
                                   exc |-> ""]
                             ELSE NoPending]
    /\ UNCHANGED <<text_cache, image_cache, first_call, ncalls, chat_history, enable_cache>>

\* line 584: the paths the finally clause goes through
cleanup_paths(tmp_path, img_path) ==
    IF img_path
    THEN (IF tmp_path THEN {"prompt"} ELSE {}) \cup {"image"}
    ELSE (IF tmp_path THEN {"prompt"} ELSE {})

\* lines 582-591: the finally clause, then the pending return or exception,
\* or `return None`
Cleanup ==
    /\ last.op = "query_ollama"
    /\ last.pc = "finally"
    /\ last' =
         [last EXCEPT
            !.pc = "done",
            !.files = IF last.env.cli.remove = "ok"
                      THEN @ \ cleanup_paths(last.tmp_path, last.img_path)
                      ELSE @,
            !.outcome = IF last.pending.kind = "raise" THEN "raise" ELSE "return",
            !.ret = last.pending.ret,
            !.exc = last.pending.exc]
    /\ UNCHANGED <<text_cache, image_cache, first_call, ncalls, chat_history, enable_cache>>

\* the backend's answers to the HTTP request
GatewayHttps ==
    { Http("no_requests", 0, PyNone),
      Http("exception", 0, PyNone),
      Http("timeout", 0, PyNone),
      Http("status", 500, PyNone),
      Http("status", OLLAMA_OK, Undecodable),
      Http("status", OLLAMA_OK,
           PyDict(<<[k |-> "error", v |-> PyStr("model not found")]>>)),
      Http("status", OLLAMA_OK, Response("{\"category_id\": 3}")) }

\* the statements of the CLI block that can fail
FailurePoints(has_image) ==
    {"create_prompt", "write_prompt", "read_prompt", "spawn", "timeout"}
        \cup (IF has_image THEN {"create_image", "write_image", "write_ref"} ELSE {})

GatewayClis(has_image) ==
    { Cli("exception", 0, "") @@ [fail_at |-> f, remove |-> r] :
          f \in FailurePoints(has_image), r \in {"ok", "error"} }
        \cup { Cli("exit", code, "{\"category_id\": 2}") @@ [fail_at |-> "none", remove |-> r] :
                   code \in {0, 1}, r \in {"ok", "error"} }

InitGateway ==
    /\ text_cache = EmptyCache
    /\ image_cache = EmptyCache
    /\ first_call = [t \in {} |-> NoCall]
    /\ ncalls = 0
    /\ chat_history = Greeting
    /\ enable_cache = TRUE
    /\ \E has_image \in BOOLEAN :
       \E http \in GatewayHttps :
       \E cli \in GatewayClis(has_image) :
          last = [op |-> "query_ollama", pc |-> "http",
                  model |-> IF has_image THEN DEFAULT_IMAGE_MODEL ELSE DEFAULT_TEXT_MODEL,
                  prompt |-> caption_prompt, has_image |-> has_image,
                  env |-> [http |-> http, cli |-> cli],
                  files |-> {}, tmp_path |-> FALSE, img_path |-> FALSE,
                  events |-> <<>>, waited |-> 0, pending |-> NoPending,
                  outcome |-> "running", ret |-> PyNone, exc |-> ""]

NextGateway ==
    \/ HttpPath
    \/ CreatePromptFile
    \/ CreateImageFile
    \/ WriteImage
    \/ WriteReference
    \/ WritePrompt
    \/ RunSubprocess
    \/ Cleanup

SpecGateway == InitGateway /\ [][NextGateway]_vars

GatewayCall == last.op = "query_ollama"
GatewayDone == GatewayCall /\ last.pc = "done"

\* C12: the temporary files of the CLI fallback live within one query_ollama
\* call: on every exit path (success, non-zero exit, timeout, failure of any
\* step after a file was created, the write of the image or of the prompt
\* included) no temporary prompt or image file that the call created still
\* exists when it returns.
C12_NoTempFileLeft ==
    GatewayDone => last.files = {}

\* every way out of the try blocks is a return
HandlersCatchAll ==
    /\ last.outcome # "raise"
    /\ last.pending.kind # "raise"
    /\ GatewayDone => last.outcome = "return"

\* the subprocess is reached: no statement before subprocess.run fails
ReachesSubprocess ==
    last.env.cli.fail_at \in {"none", "spawn", "timeout"}

HttpFailed ==
    \/ last.env.http.kind \in {"exception", "timeout"}
    \/ last.env.http.kind = "status" /\ last.env.http.status # OLLAMA_OK
    \/ last.env.http.kind = "status" /\ last.env.http.body = Undecodable

CliFailed ==
    \/ last.env.cli.fail_at # "none"
    \/ last.env.cli.code # 0

\* C13: query_ollama never raises to its caller: a non-200 status, a
\* transport error or timeout, an HTTP body that cannot be decoded, a
\* non-zero exit code, a missing `ollama` binary and a subprocess timeout
\* each fall through to the next path, and the call returns None when every
\* path has failed; what it returns is what the gateway of the session gives.
C13_GatewayNeverRaises ==
    GatewayCall =>
        /\ HandlersCatchAll
        /\ (GatewayDone /\ HttpFailed /\ ReachesSubprocess) =>
              last.events = <<"http", "cli">>
        /\ (GatewayDone /\ (HttpFailed \/ last.env.http.kind = "no_requests")
               /\ CliFailed) => last.ret = PyNone
        /\ GatewayDone =>
              last.ret = query_ollama(last.model, last.prompt, last.has_image,
                                      last.env).ret

\* the HTTP request fails in transport, then the subprocess times out
C13_Witness ==
    /\ GatewayDone
    /\ last.env.http.kind = "exception"
    /\ last.env.cli.fail_at = "timeout"
    /\ last.events = <<"http", "cli">>
    /\ last.outcome = "return"
    /\ last.ret = PyNone

\* at most one HTTP attempt and one subprocess attempt, HTTP first
AttemptsInOrder ==
    last.events \in {<<>>, <<"http">>, <<"cli">>, <<"http", "cli">>}

SubprocessStarted == \E i \in 1..Len(last.events) : last.events[i] = "cli"

\* C20: within one query_ollama call there is at most one HTTP attempt and
\* one subprocess attempt, the HTTP attempt first; the subprocess is started
\* only when the HTTP attempt failed or the HTTP client is unavailable, and
\* after an HTTP 200 no subprocess is started.
C20_NoSubprocessAfter200 ==
    GatewayCall =>
        /\ AttemptsInOrder
        /\ SubprocessStarted => (HttpFailed \/ last.env.http.kind = "no_requests")
        /\ (last.env.http.kind = "status" /\ last.env.http.status = OLLAMA_OK) =>
              ~SubprocessStarted

\* C20 (amended): within one query_ollama call there is at most one HTTP
\* attempt and one subprocess attempt, the HTTP attempt first; the
\* subprocess is started only when the HTTP client is unavailable or the
\* HTTP attempt failed, where a 200 answer whose body cannot be decoded as
\* JSON counts as failed; after a 200 answer with a decodable body no
\* subprocess is started and the decoded body is what the call returns.
C20_NoSubprocessAfterDecoded200 ==
    GatewayCall =>
        /\ AttemptsInOrder
        /\ SubprocessStarted => (HttpFailed \/ last.env.http.kind = "no_requests")
        /\ (/\ last.env.http.kind = "status"
            /\ last.env.http.status = OLLAMA_OK
            /\ last.env.http.body # Undecodable) =>
              /\ ~SubprocessStarted
              /\ last.files = {}
              /\ last.pc # "http" => (GatewayDone /\ last.ret = last.env.http.body)
        /\ (GatewayDone /\ last.env.http.body = Undecodable /\ ReachesSubprocess) =>
              SubprocessStarted

\* a 200 answer with a body that is no JSON, then the subprocess answers
C20_Witness ==
    /\ GatewayDone
    /\ last.env.http.status = OLLAMA_OK
    /\ last.env.http.body = Undecodable
    /\ last.events = <<"http", "cli">>
    /\ last.ret = Response("{\"category_id\": 2}")

(***************************************************************************)
(* Further properties of heuristic_classify (specification SpecHeur).      *)
(***************************************************************************)
\* C28: in every result of heuristic_classify the confidence inside the
\* merged guidance record, details["confidence"], equals the confidence
\* returned as the fourth element, and details["category_id"] equals the
\* returned category id.
C28_DetailsAgreeWithResult ==
    HeuristicCall =>
        /\ DictGet(last.ret.details, "confidence", PyNone) = PyNum(last.ret.confidence)
        /\ DictGet(last.ret.details, "category_id", PyNone)
             = PyNum(100 * last.ret.category_id)

\* C30: for every text whose lowercased form contains "pesticide",
\* heuristic_classify never returns category 8: "pesticide" (category 2,
\* 0.95) has matched before category 8 is scanned, and "pesticide container"
\* (0.95) is not strictly higher.
C30_PesticideNeverSpecial ==
    (HeuristicCall /\ Contains(lower(last.text), "pesticide")) =>
        /\ last.ret.category_id # 8
        /\ last.ret.confidence >= 95

\* the category-8 keyword itself occurs in the text
C30_Witness ==
    /\ HeuristicCall
    /\ Contains(lower(last.text), "pesticide container")
    /\ last.ret.category_id \in 0..7

(***************************************************************************)
(* Properties of the caption and of the returned label (specification      *)
(* Spec).                                                                  *)
(***************************************************************************)
\* the caption request of the last image request went out and its answer is
\* absent or carries no `response` entry
CaptionFailed ==
    /\ ImageCall
    /\ Len(last.queries) >= 1
    /\ ~HasKey(last.queries[1].ret, "response")

OcrCaption(ocr_text) ==
    IF ocr_text # ""
    THEN SubSeq(ocr_text, 1, Min(CAPTION_OCR_CHARS, Len(ocr_text)))
    ELSE "an object"

\* C23: in classify_image, when the caption request fails (the gateway
\* returns absent, or a reply without response text), the caption is the OCR
\* text cut to 100 characters if OCR gave any text and the placeholder
\* "an object" otherwise; the classification query and the heuristic
\* fallback both work on that caption.
C23_CaptionFallback ==
    CaptionFailed =>
        /\ last.caption = OcrCaption(last.ocr_text)
        /\ Len(last.caption) <= CAPTION_OCR_CHARS
        /\ Len(last.queries) = 2
        /\ last.queries[2].prompt = build_image_prompt(last.caption)
        /\ last.path = "heuristic" => last.ret = heuristic_classify(last.caption)

\* the OCR text is longer than 100 characters, the answer to the caption
\* request has no response text, and the heuristic classifies the cut text
C23_Witness ==
    /\ CaptionFailed
    /\ last.queries[1].ret # PyNone
    /\ Len(last.ocr_text) > CAPTION_OCR_CHARS
    /\ Len(last.caption) = CAPTION_OCR_CHARS
    /\ last.path = "heuristic"
    /\ last.ret = heuristic_classify(last.caption)

\* C27: in every result that classify_text or classify_image returns, the
\* category label is the catalogue label of the returned category id,
\* CATEGORIES[id].name, on the model path as on the heuristic path.
C27_LabelMatchesId ==
    ((TextCall \/ ImageCall) /\ last.outcome = "return"
        /\ last.ret.category_id \in CategoryIds) =>
        last.ret.category_name = PyStr(CATEGORIES[last.ret.category_id + 1].name)

(***************************************************************************)
(* get_category_details on its own (specification SpecCatalog): one        *)
(* identifier, one lookup.                                                 *)
(***************************************************************************)
CatalogIds == (0 - MaxCategoryId)..MaxCategoryId

InitCatalog ==
    /\ text_cache = EmptyCache
    /\ image_cache = EmptyCache
    /\ first_call = [t \in {} |-> NoCall]
    /\ ncalls = 0
    /\ chat_history = Greeting
    /\ enable_cache = TRUE
    /\ \E category_id \in CatalogIds :
          last = [op |-> "identifier", category_id |-> category_id, ret |-> PyNone]

\* one call get_category_details(category_id)
GetCategoryDetails ==
    /\ last.op = "identifier"
    /\ last' = [op |-> "get_category_details", category_id |-> last.category_id,
                ret |-> get_category_details(last.category_id)]
    /\ UNCHANGED <<text_cache, image_cache, first_call, ncalls, chat_history, enable_cache>>

NextCatalog == GetCategoryDetails

SpecCatalog == InitCatalog /\ [][NextCatalog]_vars

CatalogCall == last.op = "get_category_details"

\* the record carries the label and the guidance of category c
GuidanceOf(details, c) ==
    /\ details.t = "dict"
    /\ DictGet(details, "category_name", PyNone) = PyStr(CATEGORIES[c + 1].name)
    /\ DictGet(details, "description", PyNone) = PyStr(DISPOSAL_INFO(c, "description"))
    /\ DictGet(details, "reason", PyNone) = PyStr(DISPOSAL_INFO(c, "reason"))
    /\ DictGet(details, "disposal_steps", PyNone) = OneText(DISPOSAL_INFO(c, "steps"))
    /\ DictGet(details, "environmental_impact", PyNone)
         = PyStr(DISPOSAL_INFO(c, "environmental_impact"))
    /\ DictGet(details, "common_mistakes", PyNone) = OneText(DISPOSAL_INFO(c, "mistakes"))
    /\ DictGet(details, "additional_tips", PyNone) = OneText(DISPOSAL_INFO(c, "tips"))
    /\ DictGet(details, "local_disposal_options", PyNone)
         = PyStr(DISPOSAL_INFO(c, "options"))
    /\ DictGet(details, "preparation_requirements", PyNone)
         = PyStr(DISPOSAL_INFO(c, "prep"))
    /\ DictGet(details, "safety_precautions", PyNone) = PyStr(DISPOSAL_INFO(c, "safety"))

\* C24: for every category identifier outside 0..9 get_category_details
\* returns the label and the guidance record of the reserved unknown
\* category (id 9) and does not fail; for an identifier in 0..9 it returns
\* that category's own label and guidance.
C24_UnknownForUnresolvable ==
    CatalogCall =>
        IF last.category_id \in 0..9
        THEN GuidanceOf(last.ret, last.category_id)
        ELSE /\ GuidanceOf(last.ret, 9)
             /\ DictGet(last.ret, "category_name", PyNone) = PyStr("Other/Unknown")

C24_Witness ==
    /\ CatalogCall
    /\ last.category_id = 0 - 1
    /\ DictGet(last.ret, "category_name", PyNone) = PyStr("Other/Unknown")
    /\ DictGet(last.ret, "category_id", PyNone) = PyNum(0 - 100)

(***************************************************************************)
(* Further properties of query_ollama (specification SpecGateway).         *)
(***************************************************************************)
\* C21: the HTTP path and the subprocess path of one query_ollama call share
\* one timeout budget: the time the call spends waiting on the backend over
\* both paths never exceeds the timeout passed to the call.
C21_SharedTimeoutBudget ==
    GatewayCall => last.waited <= TIMEOUT

\* C22: query_ollama returns absent or a reply that carries the response
\* text: an HTTP 200 whose JSON body has no `response` field is not handed
\* to the caller as a reply.
C22_ReplyCarriesResponse ==
    (GatewayDone /\ last.outcome = "return") =>
        \/ last.ret = PyNone
        \/ /\ HasKey(last.ret, "response")
           /\ DictGet(last.ret, "response", PyNone).t = "str"

(***************************************************************************)
(* Two classify_text requests running at the same time on one text cache   *)
(* (specification SpecConcurrent).  classify_text takes no lock: a request *)
(* is the lookup of lines 842-853, which ends with the cached result or    *)
(* with query_ollama called, and, once the gateway has answered, the rest  *)
(* of the function.  last.req[p] is request p: its text, its pc ("start",  *)
(* "query" while its gateway call is in flight, "done") and its result.    *)
(***************************************************************************)
Requests == {1, 2}

ConcurrentEnvs ==
    Envs({Http("status", 500, PyNone)},
         {Cli("exit", 1, ""), Cli("exit", 0, "{\"category_id\": 2}")},
         {"Sure! {\"category_id\": 3, \"confidence\": 0.8}",
          "{\"category_id\": 1, \"confidence\": 0.9}"})

InitConcurrent ==
    /\ text_cache = EmptyCache
    /\ image_cache = EmptyCache
    /\ first_call = [t \in {} |-> NoCall]
    /\ ncalls = 0
    /\ chat_history = Greeting
    /\ enable_cache = TRUE
    /\ \E texts \in [Requests -> Texts] :
          last = [op |-> "concurrent",
                  req |-> [p \in Requests |->
                             [text |-> texts[p], pc |-> "start", path |-> "",
                              outcome |-> "", ret |-> NoResult]]]

\* lines 842-853 of request p: the cached result, or the gateway call starts
Lookup(p) ==
    /\ last.op = "concurrent"
    /\ last.req[p].pc = "start"
    /\ last' = IF CacheHit(text_cache, get_content_hash(last.req[p].text))
               THEN [last EXCEPT
                       !.req[p].pc = "done", !.req[p].path = "cache",
                       !.req[p].outcome = "return",
                       !.req[p].ret = text_cache[get_content_hash(last.req[p].text)]]
               ELSE [last EXCEPT !.req[p].pc = "query"]
    /\ UNCHANGED <<text_cache, image_cache, first_call, ncalls, chat_history, enable_cache>>

\* lines 853-872 of request p: the gateway answers and the function ends
Complete(p) ==
    /\ last.op = "concurrent"
    /\ last.req[p].pc = "query"
    /\ \E env \in ConcurrentEnvs :
       \E r \in {text_miss(last.req[p].text, get_content_hash(last.req[p].text),
                           text_cache,
                           query_ollama(DEFAULT_TEXT_MODEL,
                                        build_text_prompt(last.req[p].text),
                                        FALSE, env))} :
          /\ text_cache' = r.cache
          /\ last' = [last EXCEPT
                        !.req[p].pc = "done", !.req[p].path = r.path,
                        !.req[p].outcome = r.outcome, !.req[p].ret = r.ret]
    /\ UNCHANGED <<image_cache, first_call, ncalls, chat_history, enable_cache>>

NextConcurrent == \E p \in Requests : Lookup(p) \/ Complete(p)

SpecConcurrent == InitConcurrent /\ [][NextConcurrent]_vars

InFlight(p) == last.req[p].pc = "query"

\* C25: when two classify_text requests for the same text run at the same
\* time on the same cache, at most one gateway call for that fingerprint is
\* in flight at any time.
C25_AtMostOneInFlight ==
    last.op = "concurrent" =>
        \A p, q \in Requests :
            (p # q /\ last.req[p].text = last.req[q].text /\ InFlight(p)) =>
                ~InFlight(q)

(***************************************************************************)
(* The page (specification SpecApp): the handlers of main that change      *)
(* st.session_state.  chat_history is the chat, a message being its role   *)
(* and the kind of its text; enable_cache is the "Enable Caching" checkbox *)
(* of line 1803.  last records the handler that ran last, the setting and  *)
(* the caches as it found them.                                            *)
(***************************************************************************)
AppTexts == {"plastic bottle", "Tell me more about Organic Waste"}

AppEnvs ==
    Envs({Http("status", 500, PyNone)}, {Cli("exit", 1, "")},
         {"{\"category_id\": 1, \"confidence\": 0.9}"})

AppRecord(op, path, outcome, ret) ==
    [op |-> op, path |-> path, outcome |-> outcome, ret |-> ret,
     enable_cache |-> enable_cache,
     pre_text_cache |-> text_cache, pre_image_cache |-> image_cache]

InitApp ==
    /\ text_cache = EmptyCache
    /\ image_cache = EmptyCache
    /\ first_call = [t \in {} |-> NoCall]
    /\ ncalls = 0
    /\ chat_history = Greeting
    /\ enable_cache = TRUE
    /\ last = [op |-> "none"]

\* lines 1895-1901: the text asks for information about a category
InfoRequest(user_input) ==
    /\ \E cat_id \in CategoryIds :
          Contains(lower(user_input), lower(CATEGORIES[cat_id + 1].name))
    /\ \/ Contains(lower(user_input), "tell me more")
       \/ Contains(lower(user_input), "more about")
       \/ Contains(lower(user_input), "information about")

\* the three messages that follow a classification or a category's details
Answer(kind) ==
    << Message("assistant", kind), Message("assistant", "DISPOSAL_INFO"),
       Message("assistant", "follow_up") >>

\* lines 1883-1969: the form of the text mode is submitted
SubmitText ==
    /\ ncalls < MaxCalls
    /\ \E user_input \in AppTexts, env \in AppEnvs :
          IF InfoRequest(user_input)
          THEN /\ chat_history' = Append(chat_history, Message("user", user_input))
                                    \o Answer("details")
               /\ last' = AppRecord("submit_text", "details", "return", NoResult)
               /\ UNCHANGED text_cache
          ELSE \E r \in {classify_text(user_input, DEFAULT_TEXT_MODEL, text_cache, env)} :
               /\ text_cache' = r.cache
               /\ chat_history' = Append(chat_history, Message("user", user_input))
                                    \o (IF r.outcome = "return" THEN Answer("result")
                                        ELSE <<>>)
               /\ last' = AppRecord("submit_text", r.path, r.outcome, r.ret)
    /\ ncalls' = ncalls + 1
    /\ UNCHANGED <<image_cache, first_call, enable_cache>>

\* lines 1983-2031: the form of the image mode is submitted
SubmitImage ==
    /\ ncalls < MaxCalls
    /\ \E image \in Images, env1 \in CaptionEnvs, env2 \in AppEnvs :
       \E r \in {classify_image(image, DEFAULT_IMAGE_MODEL, DEFAULT_TEXT_MODEL,
                                image_cache,
                                [available |-> FALSE, kind |-> "text", text |-> ""],
                                env1, env2)} :
          /\ image_cache' = r.cache
          /\ chat_history' = Append(chat_history, Message("user", "[Image uploaded]"))
                               \o (IF r.outcome = "return" THEN Answer("result")
                                   ELSE <<>>)
          /\ last' = AppRecord("submit_image", r.path, r.outcome, r.ret)
    /\ ncalls' = ncalls + 1
    /\ UNCHANGED <<text_cache, first_call, enable_cache>>

\* a clear button that empties the session's caches with the chat
ClearChatHistoryAndCaches ==
    /\ chat_history' = << Message("assistant", "cleared") >>
    /\ text_cache' = EmptyCache
    /\ image_cache' = EmptyCache
    /\ last' = AppRecord("clear_chat_history", "", "", NoResult)
    /\ UNCHANGED <<first_call, ncalls, enable_cache>>

\* lines 1808-1814: the button "Clear Chat History"
ClearChatHistory ==
    /\ chat_history' = << Message("assistant", "cleared") >>
    /\ last' = AppRecord("clear_chat_history", "", "", NoResult)
    /\ UNCHANGED <<text_cache, image_cache, first_call, ncalls, enable_cache>>

\* line 1803: the checkbox "Enable Caching" is ticked or unticked
SetEnableCaching ==
    /\ enable_cache' = ~enable_cache
    /\ last' = AppRecord("enable_caching", "", "", NoResult)
    /\ UNCHANGED <<text_cache, image_cache, first_call, ncalls, chat_history>>

\* lines 2049-2081: one of the "Quick Category Info" buttons
QuickCategoryInfo ==
    /\ ncalls < MaxCalls
    /\ \E cat_id \in CategoryIds :
          /\ chat_history' = Append(chat_history, Message("user", "Tell me more"))
                               \o Answer("details")
          /\ last' = AppRecord("quick_info", "details", "return",
                               get_category_details(cat_id))
    /\ ncalls' = ncalls + 1
    /\ UNCHANGED <<text_cache, image_cache, first_call, enable_cache>>

NextApp ==
    \/ SubmitText
    \/ SubmitImage
    \/ ClearChatHistory
    \/ SetEnableCaching
    \/ QuickCategoryInfo

SpecApp == InitApp /\ [][NextApp]_vars

Submitted == last.op \in {"submit_text", "submit_image"}

\* every entry of the cache `before` is in the cache `after` with its value
Kept(before, after) ==
    \A k \in DOMAIN before : k \in DOMAIN after /\ after[k] = before[k]

\* C26: cache entries are permanent within a session: whatever the sequence
\* of classifications and page actions ("Clear Chat History" included), a
\* fingerprint once in the text cache or in the image cache stays there with
\* the value first stored for it; no step removes or overwrites an entry.
C26_EntriesPermanent ==
    [][Kept(text_cache, text_cache') /\ Kept(image_cache, image_cache')]_vars

\* the chat has been cleared and the text cache still holds its entry
C26_Witness ==
    /\ last.op = "clear_chat_history"
    /\ chat_history = << Message("assistant", "cleared") >>
    /\ text_cache # EmptyCache
    /\ text_cache = last.pre_text_cache

\* C29: with "Enable Caching" unticked a classification request neither
\* takes its result from the text or image cache nor stores its result
\* there: every such request goes to the gateway or to the heuristic again.
C29_DisabledCachingBypassesCache ==
    (Submitted /\ ~last.enable_cache) =>
        /\ last.path # "cache"
        /\ text_cache = last.pre_text_cache
        /\ image_cache = last.pre_image_cache

=============================================================================
